---------------------------- MODULE Spec2Model ----------------------------
(***************************************************************************)
(* The Crawler of src/src/crawler.ts as a state machine.                   *)
(*                                                                         *)
(* The program runs on one JavaScript thread.  A step of the model is one  *)
(* run-to-completion piece of code:                                        *)
(*   - a call of the public API (addTask, start, stop, pause, resume,      *)
(*     setRetries, setDelay, beforeRequest), which may come at any time,   *)
(*     also from inside a hook or between an `await` and its continuation; *)
(*   - a microtask: the continuation of `await beforeRequestHandler(url)`  *)
(*     when the handler answered synchronously; microtasks run in FIFO     *)
(*     order and before any event of the event loop;                       *)
(*   - an event of the event loop (only when no microtask is queued): a    *)
(*     gate promise settling, a fetch settling, a sleep or a retry timer   *)
(*     elapsing, each with the continuations that follow it.               *)
(***************************************************************************)
EXTENDS Integers, Sequences, FiniteSets

\* The identifiers callers add.  "" is the empty string, which `if (url)`
\* (crawler.ts:54) treats as absent.
Ids == {"", "a", "b"}

\* The identifiers of end-to-end scenario 1 (spec.md, section 8).
ScenarioIds == <<"a", "b", "c">>
AllIds == Ids \cup {ScenarioIds[i] : i \in DOMAIN ScenarioIds}

\* Bounds of the model.
MaxAdds == 2
MaxRetries == 2
MaxConcurrency == 2

VARIABLES
  taskQueue,       \* this.taskQueue
  active,          \* this.active
  paused,          \* this.paused
  concurrency,     \* this.concurrency
  activeRequests,  \* this.activeRequests
  retries,         \* this.retries
  delay,           \* this.delay (0, or 1 for any positive delay)
  gateMode,        \* this.beforeRequestHandler: answers "sync" or by a promise ("async")
  microQ,          \* microtask queue: pops whose synchronous gate answer awaits its continuation
  gates,           \* pops whose gate promise is still pending
  sleeping,        \* pops of "" whose checkQueue is in `await sleep(1000)`
  workers,         \* fetchPage calls in progress
  timers,          \* retry timers set by setTimeout (crawler.ts:86)
  log,             \* history: one entry per identifier shifted off the queue
  adds,            \* history: number of addTask calls so far
  insertedAt,      \* history: per identifier, the addTask call that made it pending (0: not pending)
  endCalls,        \* history: number of calls of the end-of-queue handler
  console,         \* observation: the last line logged and the parity of the line count
  held             \* observation: per identifier, whether it was added while Paused

vars == <<taskQueue, active, paused, concurrency, activeRequests, retries, delay,
          gateMode, microQ, gates, sleeping, workers, timers, log, adds,
          insertedAt, endCalls, console, held>>

\* The observations: set only by the specifications that watch them.
obs == <<console, held>>

--------------------------------------------------------------------------
\* Helpers

\* unique(arr) of ./utils: the first occurrence of every element, in order.
RECURSIVE unique(_)
unique(arr) ==
  IF arr = <<>> THEN <<>>
  ELSE LET front == unique(SubSeq(arr, 1, Len(arr) - 1))
           last == arr[Len(arr)]
       IN IF \E i \in DOMAIN front : front[i] = last THEN front ELSE Append(front, last)

\* The history entry of a pop: the identifier, the addTask call that made it
\* pending (ins), the number of addTask calls when it was popped (popAt), the
\* state of its gate call, the retry count its worker was started with, the
\* rank of its worker among the workers started (ord, 0: none), the numbers
\* of network calls, retries scheduled, item processor and error handler
\* calls, the number of its network calls that failed, and whether an
\* attempt has succeeded.
NewEntry(url, ins, at, gate) ==
  [url |-> url, ins |-> ins, popAt |-> at, gate |-> gate, budget |-> 0, ord |-> 0,
   net |-> 0, sched |-> 0, item |-> 0, err |-> 0, failed |-> 0, ok |-> FALSE]

\* Number of Fetch Workers started by the drain loop so far.
Started(lg) == Cardinality({i \in DOMAIN lg : lg[i].ord > 0})

\* getTaskCount()
getTaskCount == Len(taskQueue)

--------------------------------------------------------------------------
\* The part of the state the drain loop works on, as the caller has left it.
loopState ==
  [taskQueue |-> taskQueue, microQ |-> microQ, gates |-> gates,
   sleeping |-> sleeping, insertedAt |-> insertedAt, log |-> log, adds |-> adds]

\* The variables checkQueue sets.
loopVars == <<taskQueue, microQ, gates, sleeping, insertedAt, log, endCalls>>

\* The condition of checkQueue's loop (crawler.ts:52) on a queue q.
loopCondition_noLimit(q, act, pau, ar) == act /\ ~pau /\ Len(q) > 0

loopCondition_ignorePause(q, act, pau, ar) == act /\ ar < concurrency /\ Len(q) > 0

loopCondition_ignoreActive(q, act, pau, ar) == ~pau /\ ar < concurrency /\ Len(q) > 0

loopCondition(q, act, pau, ar) == act /\ ~pau /\ ar < concurrency /\ Len(q) > 0

\* checkQueue, from the loop's condition to its next suspension or its exit.
\* s is the loop state and act, pau, ar the values of active, paused and
\* activeRequests that the caller has reached so far.
checkQueue(s, act, pau, ar) ==
  IF loopCondition(s.taskQueue, act, pau, ar)
  THEN LET url == Head(s.taskQueue)
           p == Len(s.log) + 1
       IN /\ taskQueue' = Tail(s.taskQueue)
          /\ insertedAt' = [s.insertedAt EXCEPT ![url] = 0]
          /\ IF url # ""
             THEN /\ log' = Append(s.log, NewEntry(url, s.insertedAt[url], s.adds, "pending"))
                  /\ microQ' = IF gateMode = "sync" THEN Append(s.microQ, p) ELSE s.microQ
                  /\ gates' = IF gateMode = "sync" THEN s.gates ELSE s.gates \cup {p}
                  /\ sleeping' = s.sleeping
                  /\ endCalls' = endCalls
             ELSE /\ log' = Append(s.log, NewEntry(url, s.insertedAt[url], s.adds, "none"))
                  /\ endCalls' = endCalls + 1
                  /\ sleeping' = s.sleeping \cup {p}
                  /\ microQ' = s.microQ
                  /\ gates' = s.gates
  ELSE /\ taskQueue' = s.taskQueue
       /\ microQ' = s.microQ
       /\ gates' = s.gates
       /\ sleeping' = s.sleeping
       /\ insertedAt' = s.insertedAt
       /\ log' = s.log
       /\ endCalls' = endCalls

--------------------------------------------------------------------------
\* A crawler constructed with a concurrency limit of cs and configured,
\* before the run, with a retry count of rs and a gate of kind gs.
Configured(cs, rs, gs) ==
  /\ taskQueue = <<>>
  /\ active = FALSE
  /\ paused = FALSE
  /\ concurrency \in cs
  /\ activeRequests = 0
  /\ retries \in rs
  /\ delay = 0
  /\ gateMode \in gs
  /\ microQ = <<>>
  /\ gates = {}
  /\ sleeping = {}
  /\ workers = {}
  /\ timers = {}
  /\ log = <<>>
  /\ adds = 0
  /\ insertedAt = [id \in AllIds |-> 0]
  /\ endCalls = 0
  /\ console = [line |-> "", n |-> 0]
  /\ held = [id \in AllIds |-> "no"]

\* Dispatch without retries, under every limit and both kinds of gate.
Init == Configured(1..MaxConcurrency, {0}, {"sync", "async"})

--------------------------------------------------------------------------
\* The public API

\* taskQueue.push(url) and unique(taskQueue) (crawler.ts:158-159).
pushed_noUnique(q, url) == Append(q, url)

pushed_remembering(q, url) ==
  IF \E i \in DOMAIN log : log[i].url = url THEN q ELSE unique(Append(q, url))

pushed(q, url) == unique(Append(q, url))

addTask(url) ==
  /\ adds' = adds + 1
  /\ LET s == [loopState EXCEPT
                 !.taskQueue = pushed(taskQueue, url),
                 !.adds = adds + 1,
                 !.insertedAt = IF insertedAt[url] = 0
                                THEN [insertedAt EXCEPT ![url] = adds + 1]
                                ELSE insertedAt]
     IN IF active
        THEN checkQueue(s, active, paused, activeRequests)
        ELSE /\ taskQueue' = s.taskQueue
             /\ insertedAt' = s.insertedAt
             /\ UNCHANGED <<microQ, gates, sleeping, log, endCalls>>
  /\ UNCHANGED <<active, paused, concurrency, activeRequests, retries, delay,
                 gateMode, workers, timers>>

start_restart ==
  /\ active' = TRUE
  /\ paused' = FALSE
  /\ checkQueue(loopState, TRUE, FALSE, activeRequests)
  /\ UNCHANGED <<concurrency, activeRequests, retries, delay, gateMode, workers,
                 timers, adds>>

start ==
  /\ IF active
     THEN UNCHANGED <<active, paused, loopVars>>
     ELSE /\ active' = TRUE
          /\ paused' = FALSE
          /\ checkQueue(loopState, TRUE, FALSE, activeRequests)
  /\ UNCHANGED <<concurrency, activeRequests, retries, delay, gateMode, workers,
                 timers, adds>>

stop_cancelling ==
  /\ active' = FALSE
  /\ workers' = {}
  /\ timers' = {}
  /\ UNCHANGED <<paused, concurrency, activeRequests, retries, delay, gateMode,
                 adds, loopVars>>

stop ==
  /\ active' = FALSE
  /\ UNCHANGED <<paused, concurrency, activeRequests, retries, delay, gateMode,
                 workers, timers, adds, loopVars>>

pause ==
  /\ paused' = TRUE
  /\ UNCHANGED <<active, concurrency, activeRequests, retries, delay, gateMode,
                 workers, timers, adds, loopVars>>

resume ==
  /\ IF active /\ paused
     THEN /\ paused' = FALSE
          /\ checkQueue(loopState, active, FALSE, activeRequests)
     ELSE UNCHANGED <<paused, loopVars>>
  /\ UNCHANGED <<active, concurrency, activeRequests, retries, delay, gateMode,
                 workers, timers, adds>>

setRetries(n) ==
  /\ retries' = n
  /\ UNCHANGED <<active, paused, concurrency, activeRequests, delay, gateMode,
                 workers, timers, adds, loopVars>>

setDelay(d) ==
  /\ delay' = d
  /\ UNCHANGED <<active, paused, concurrency, activeRequests, retries, gateMode,
                 workers, timers, adds, loopVars>>

beforeRequest(mode) ==
  /\ gateMode' = mode
  /\ UNCHANGED <<active, paused, concurrency, activeRequests, retries, delay,
                 workers, timers, adds, loopVars>>

--------------------------------------------------------------------------
\* fetchPage(url, n) up to its first suspension: the sleep of the delay, or
\* the network call.
newWorker_currentConfig(p, n, first) ==
  [d |-> p, retries |-> retries, first |-> first,
   phase |-> IF delay > 0 THEN "delay" ELSE "fetch"]

newWorker_retryHoldsSlot(p, n, first) ==
  [d |-> p, retries |-> n, first |-> TRUE,
   phase |-> IF delay > 0 THEN "delay" ELSE "fetch"]

newWorker(p, n, first) ==
  [d |-> p, retries |-> n, first |-> first,
   phase |-> IF delay > 0 THEN "delay" ELSE "fetch"]

\* The history of pop p when fetchPage is called for it.
fetchPageCalled(lg, p, n, first) ==
  [lg EXCEPT ![p].net = IF delay > 0 THEN @ ELSE @ + 1,
             ![p].budget = IF first THEN n ELSE @,
             ![p].ord = IF first THEN Started(lg) + 1 ELSE @]

\* `if (proceed)` (crawler.ts:56).
admits_always(proceed) == TRUE

admits(proceed) == proceed

\* checkQueue after `await this.beforeRequestHandler(url)` for pop p
\* (crawler.ts:56-66), then round the loop again.  s is the loop state
\* without p's suspension.
gateAnswered(p, proceed, s) ==
  LET lg == [s.log EXCEPT ![p].gate = IF proceed THEN "allowed" ELSE "denied"]
  IN IF admits(proceed)
     THEN /\ activeRequests' = activeRequests + 1
          /\ workers' = workers \cup {newWorker(p, retries, TRUE)}
          /\ checkQueue([s EXCEPT !.log = fetchPageCalled(lg, p, retries, TRUE)],
                        active, paused, activeRequests + 1)
     ELSE /\ checkQueue([s EXCEPT !.log = lg], active, paused, activeRequests)
          /\ UNCHANGED <<activeRequests, workers>>

\* The continuation of a synchronous gate answer: the next microtask.
gateMicrotask(proceed) ==
  /\ microQ # <<>>
  /\ gateAnswered(Head(microQ), proceed, [loopState EXCEPT !.microQ = Tail(microQ)])
  /\ UNCHANGED <<active, paused, concurrency, retries, delay, gateMode, timers, adds>>

\* A gate promise settles (an event: no microtask is queued).
gatePromise(p, proceed) ==
  /\ microQ = <<>>
  /\ p \in gates
  /\ gateAnswered(p, proceed, [loopState EXCEPT !.gates = gates \ {p}])
  /\ UNCHANGED <<active, paused, concurrency, retries, delay, gateMode, timers, adds>>

\* `await sleep(1000)` of crawler.ts:69 elapses; the loop checks its condition again.
pollElapsed(p) ==
  /\ microQ = <<>>
  /\ p \in sleeping
  /\ checkQueue([loopState EXCEPT !.sleeping = sleeping \ {p}], active, paused,
                activeRequests)
  /\ UNCHANGED <<active, paused, concurrency, activeRequests, retries, delay,
                 gateMode, workers, timers, adds>>

\* `await sleep(this.delay)` of fetchPage elapses: the network call is made.
delayElapsed(w) ==
  /\ microQ = <<>>
  /\ w \in workers
  /\ w.phase = "delay"
  /\ workers' = (workers \ {w}) \cup {[w EXCEPT !.phase = "fetch"]}
  /\ log' = [log EXCEPT ![w.d].net = @ + 1]
  /\ UNCHANGED <<taskQueue, active, paused, concurrency, activeRequests, retries,
                 delay, gateMode, microQ, gates, sleeping, timers, adds,
                 insertedAt, endCalls>>

\* What the network call and the hooks can do: the fetch fails with an Error
\* ("fail": bad status or transport error, crawler.ts:122-126), fails with an
\* Error that the error handler, when it gets it, answers by throwing
\* ("failThrow"), or fails with a value that is no Error ("failOther",
\* crawler.ts:127); or it succeeds and the item processor returns, throws an
\* Error, or throws a value that is no Error.
Outcomes == {"fail", "failThrow", "failOther", "ok", "okThrowError", "okThrowOther"}

\* The outcomes in which fetchUrl throws.
fetchFails(o) == o \in {"fail", "failThrow", "failOther"}

\* The branches of fetchPage's catch (crawler.ts:84-91) for a worker with n
\* retries left: schedule a retry, or else report an Error to the error handler.
retries_again(o, n) == o # "ok" /\ n > 0

reports_always(o, n) == o \in {"fail", "failThrow", "okThrowError"}

reports(o, n) == o \in {"fail", "failThrow", "okThrowError"} /\ ~retries_again(o, n)

\* Whether fetchPage's promise is rejected: only a throwing error handler
\* gets an exception out of the catch block.
rejects(o, n) == o = "failThrow" /\ reports(o, n)

\* The callback of `.finally` (crawler.ts:58) runs when fetchPage's promise
\* is fulfilled and when it is rejected.
onSettled_fulfilledOnly(rejected) == ~rejected

onSettled(rejected) == TRUE

\* The network call of worker w settles with outcome o: the rest of fetchPage
\* (crawler.ts:80-92) and, for a worker the drain loop started, the finally
\* callback (crawler.ts:58-63).
fetchSettled(w, o) ==
  /\ microQ = <<>>
  /\ w \in workers
  /\ w.phase = "fetch"
  /\ workers' = workers \ {w}
  /\ LET retry == retries_again(o, w.retries)
         report == reports(o, w.retries)
         lg == [log EXCEPT ![w.d].item = IF fetchFails(o) THEN @ ELSE @ + 1,
                           ![w.d].ok = @ \/ ~fetchFails(o),
                           ![w.d].failed = IF fetchFails(o) THEN @ + 1 ELSE @,
                           ![w.d].sched = IF retry THEN @ + 1 ELSE @,
                           ![w.d].err = IF report THEN @ + 1 ELSE @]
     IN /\ timers' = IF retry THEN timers \cup {[d |-> w.d, retries |-> w.retries]}
                     ELSE timers
        /\ IF w.first /\ onSettled(rejects(o, w.retries))
           THEN /\ activeRequests' = activeRequests - 1
                /\ IF active /\ ~paused
                   THEN checkQueue([loopState EXCEPT !.log = lg], active, paused,
                                   activeRequests - 1)
                   ELSE /\ log' = lg
                        /\ UNCHANGED <<taskQueue, microQ, gates, sleeping, insertedAt,
                                       endCalls>>
           ELSE /\ log' = lg
                /\ UNCHANGED <<activeRequests, taskQueue, microQ, gates, sleeping,
                               insertedAt, endCalls>>
  /\ UNCHANGED <<active, paused, concurrency, retries, delay, gateMode, adds>>

\* A retry timer fires: fetchPage(url, retries - 1) (crawler.ts:86).
retryTimer(t) ==
  /\ microQ = <<>>
  /\ t \in timers
  /\ timers' = timers \ {t}
  /\ workers' = workers \cup {newWorker(t.d, t.retries - 1, FALSE)}
  /\ log' = fetchPageCalled(log, t.d, t.retries - 1, FALSE)
  /\ UNCHANGED <<taskQueue, active, paused, concurrency, activeRequests, retries,
                 delay, gateMode, microQ, gates, sleeping, adds, insertedAt,
                 endCalls>>

--------------------------------------------------------------------------
Next ==
  \/ \E url \in Ids : adds < MaxAdds /\ addTask(url) /\ UNCHANGED obs
  \/ start /\ UNCHANGED obs
  \/ stop /\ UNCHANGED obs
  \/ pause /\ UNCHANGED obs
  \/ resume /\ UNCHANGED obs
  \/ \E proceed \in BOOLEAN : gateMicrotask(proceed) /\ UNCHANGED obs
  \/ \E p \in gates, proceed \in BOOLEAN : gatePromise(p, proceed) /\ UNCHANGED obs
  \/ \E p \in sleeping : pollElapsed(p) /\ UNCHANGED obs
  \/ \E w \in workers, o \in {"fail", "ok"} : fetchSettled(w, o) /\ UNCHANGED obs

Spec == Init /\ [][Next]_vars

\* Retries: one slot, every retry count up to MaxRetries, either kind of
\* gate.
InitRetry == Configured({1}, 0..MaxRetries, {"sync", "async"})

NextRetry ==
  \/ \E url \in Ids : adds < MaxAdds /\ addTask(url) /\ UNCHANGED obs
  \/ start /\ UNCHANGED obs
  \/ stop /\ UNCHANGED obs
  \/ pause /\ UNCHANGED obs
  \/ resume /\ UNCHANGED obs
  \/ \E proceed \in BOOLEAN : gateMicrotask(proceed) /\ UNCHANGED obs
  \/ \E p \in gates, proceed \in BOOLEAN : gatePromise(p, proceed) /\ UNCHANGED obs
  \/ \E p \in sleeping : pollElapsed(p) /\ UNCHANGED obs
  \/ \E w \in workers, o \in {"fail", "ok"} : fetchSettled(w, o) /\ UNCHANGED obs
  \/ \E t \in timers : retryTimer(t) /\ UNCHANGED obs

SpecRetry == InitRetry /\ [][NextRetry]_vars

\* Retry timers: one slot, no retry or one, either kind of gate.
InitTimers == Configured({1}, {0, 1}, {"sync", "async"})

NextTimers ==
  \/ \E url \in Ids : adds < MaxAdds /\ addTask(url) /\ UNCHANGED obs
  \/ start /\ UNCHANGED obs
  \/ stop /\ UNCHANGED obs
  \/ pause /\ UNCHANGED obs
  \/ resume /\ UNCHANGED obs
  \/ \E proceed \in BOOLEAN : gateMicrotask(proceed) /\ UNCHANGED obs
  \/ \E p \in gates, proceed \in BOOLEAN : gatePromise(p, proceed) /\ UNCHANGED obs
  \/ \E p \in sleeping : pollElapsed(p) /\ UNCHANGED obs
  \/ \E w \in workers, o \in {"fail", "ok"} : fetchSettled(w, o) /\ UNCHANGED obs
  \/ \E t \in timers : retryTimer(t) /\ UNCHANGED obs

SpecTimers == InitTimers /\ [][NextTimers]_vars

\* Workers and hooks: one slot, no retry or one, either kind of gate, and
\* every outcome of the network call and of the hooks.
InitWorker == Configured({1}, {0, 1}, {"sync", "async"})

NextWorker ==
  \/ \E url \in Ids : adds < MaxAdds /\ addTask(url) /\ UNCHANGED obs
  \/ start /\ UNCHANGED obs
  \/ stop /\ UNCHANGED obs
  \/ pause /\ UNCHANGED obs
  \/ resume /\ UNCHANGED obs
  \/ \E proceed \in BOOLEAN : gateMicrotask(proceed) /\ UNCHANGED obs
  \/ \E p \in gates, proceed \in BOOLEAN : gatePromise(p, proceed) /\ UNCHANGED obs
  \/ \E p \in sleeping : pollElapsed(p) /\ UNCHANGED obs
  \/ \E w \in workers, o \in Outcomes : fetchSettled(w, o) /\ UNCHANGED obs
  \/ \E t \in timers : retryTimer(t) /\ UNCHANGED obs

SpecWorker == InitWorker /\ [][NextWorker]_vars

\* The setters called during the run: one slot, a gate that allows at once,
\* one identifier added again and again, a run that is started and not
\* halted, the retry count set to any value up to MaxRetries and the delay
\* switched on and off at any time.
InitBudget == Configured({1}, 0..MaxRetries, {"sync"})

NextBudget ==
  \/ adds < MaxAdds /\ addTask("a") /\ UNCHANGED obs
  \/ start /\ UNCHANGED obs
  \/ \E n \in 0..MaxRetries : setRetries(n) /\ UNCHANGED obs
  \/ \E d \in {0, 1} : setDelay(d) /\ UNCHANGED obs
  \/ gateMicrotask(TRUE) /\ UNCHANGED obs
  \/ \E w \in workers : delayElapsed(w) /\ UNCHANGED obs
  \/ \E w \in workers, o \in {"fail", "ok"} : fetchSettled(w, o) /\ UNCHANGED obs
  \/ \E t \in timers : retryTimer(t) /\ UNCHANGED obs

SpecBudget == InitBudget /\ [][NextBudget]_vars

\* Progress: one slot, no retries, either kind of gate.  Every gate call
\* answers and every network call settles; the sleep of the poll elapses.
\* The calls of the API are the caller's and come or do not come.
InitProgress == Configured({1}, {0}, {"sync", "async"})

NextProgress ==
  \/ \E url \in Ids : adds < MaxAdds /\ addTask(url) /\ UNCHANGED obs
  \/ start /\ UNCHANGED obs
  \/ stop /\ UNCHANGED obs
  \/ pause /\ UNCHANGED obs
  \/ resume /\ UNCHANGED obs
  \/ \E proceed \in BOOLEAN : gateMicrotask(proceed) /\ UNCHANGED obs
  \/ \E p \in gates, proceed \in BOOLEAN : gatePromise(p, proceed) /\ UNCHANGED obs
  \/ \E p \in sleeping : pollElapsed(p) /\ UNCHANGED obs
  \/ \E w \in workers, o \in {"fail", "ok"} : fetchSettled(w, o) /\ UNCHANGED obs

SpecProgress ==
  /\ InitProgress
  /\ [][NextProgress]_vars
  /\ WF_vars(\E proceed \in BOOLEAN : gateMicrotask(proceed) /\ UNCHANGED obs)
  /\ WF_vars(\E p \in gates, proceed \in BOOLEAN : gatePromise(p, proceed) /\ UNCHANGED obs)
  /\ WF_vars(\E p \in sleeping : pollElapsed(p) /\ UNCHANGED obs)
  /\ WF_vars(\E w \in workers, o \in {"fail", "ok"} : fetchSettled(w, o) /\ UNCHANGED obs)

\* The queue under a longer sequence of addTask calls: one slot, no retries,
\* either kind of gate.
InitQueue == Configured({1}, {0}, {"sync", "async"})

NextQueue ==
  \/ \E url \in Ids : adds < MaxAdds + 1 /\ addTask(url) /\ UNCHANGED obs
  \/ start /\ UNCHANGED obs
  \/ stop /\ UNCHANGED obs
  \/ pause /\ UNCHANGED obs
  \/ resume /\ UNCHANGED obs
  \/ \E proceed \in BOOLEAN : gateMicrotask(proceed) /\ UNCHANGED obs
  \/ \E p \in gates, proceed \in BOOLEAN : gatePromise(p, proceed) /\ UNCHANGED obs
  \/ \E p \in sleeping : pollElapsed(p) /\ UNCHANGED obs
  \/ \E w \in workers, o \in {"fail", "ok"} : fetchSettled(w, o) /\ UNCHANGED obs

SpecQueue == InitQueue /\ [][NextQueue]_vars

\* The lifecycle calls under observation: console holds the message the last
\* lifecycle call logged, held marks the identifiers added while the run was
\* Paused ("paused"), until resume() is called ("no"); a start() that
\* restarts a stopped run turns the mark into "restarted".
AlreadyRunning == "Crawler is already running."
CannotResume == "Cannot resume crawler. It is either not active or not paused."

\* console.log(line)
logged(line) == [line |-> line, n |-> 1 - console.n]

addTaskObserved(url) ==
  /\ addTask(url)
  /\ held' = IF active /\ paused THEN [held EXCEPT ![url] = "paused"] ELSE held
  /\ UNCHANGED console

startObserved ==
  /\ start
  /\ console' = logged(IF active THEN AlreadyRunning ELSE "Crawler started.")
  /\ held' = IF active THEN held
             ELSE [id \in AllIds |-> IF held[id] = "paused" THEN "restarted" ELSE held[id]]

stopObserved == stop /\ console' = logged("Crawler stopped.") /\ UNCHANGED held

pauseObserved == pause /\ console' = logged("Crawler paused.") /\ UNCHANGED held

resumeObserved ==
  /\ resume
  /\ console' = logged(IF active /\ paused THEN "Crawler resumed." ELSE CannotResume)
  /\ held' = IF active /\ paused THEN [id \in AllIds |-> "no"] ELSE held

\* Lifecycle calls: one slot, no retries, either kind of gate; every fetch
\* succeeds, the outcome of a fetch having no part in the lifecycle.
InitLifecycle == Configured({1}, {0}, {"sync", "async"})

NextLifecycle ==
  \/ \E url \in Ids : adds < MaxAdds /\ addTaskObserved(url)
  \/ startObserved
  \/ stopObserved
  \/ pauseObserved
  \/ resumeObserved
  \/ \E proceed \in BOOLEAN : gateMicrotask(proceed) /\ UNCHANGED obs
  \/ \E p \in gates, proceed \in BOOLEAN : gatePromise(p, proceed) /\ UNCHANGED obs
  \/ \E p \in sleeping : pollElapsed(p) /\ UNCHANGED obs
  \/ \E w \in workers : fetchSettled(w, "ok") /\ UNCHANGED obs

SpecLifecycle == InitLifecycle /\ [][NextLifecycle]_vars

\* End-to-end scenario 1 of spec.md, section 8: a limit of 2, no retries, a
\* gate that always allows, a, b and c added before start() and nothing
\* added afterwards.
InitScenario1 == Configured({2}, {0}, {"sync", "async"})

NextScenario1 ==
  \/ /\ ~active
     /\ adds < Len(ScenarioIds)
     /\ addTask(ScenarioIds[adds + 1])
     /\ UNCHANGED obs
  \/ adds = Len(ScenarioIds) /\ start /\ UNCHANGED obs
  \/ gateMicrotask(TRUE) /\ UNCHANGED obs
  \/ \E p \in gates : gatePromise(p, TRUE) /\ UNCHANGED obs
  \/ \E w \in workers, o \in Outcomes : fetchSettled(w, o) /\ UNCHANGED obs

SpecScenario1 == InitScenario1 /\ [][NextScenario1]_vars

--------------------------------------------------------------------------
\* Vocabulary of the properties

\* The workers that occupy a slot: started by the drain loop, first attempt
\* not yet terminated.
SlotHolders == {w \in workers : w.first}

\* The pops whose Fetch Worker was started and has terminated.
Terminated == {i \in DOMAIN log : log[i].ord > 0 /\ ~\E w \in SlotHolders : w.d = i}

\* The pops whose task has nothing left to do: no attempt running, no retry
\* timer pending.
Finished == {i \in DOMAIN log :
               /\ log[i].ord > 0
               /\ ~\E w \in workers : w.d = i
               /\ ~\E t \in timers : t.d = i}

Running == active /\ ~paused
Paused == active /\ paused

\* The identifiers in the queue.
Pending == {taskQueue[i] : i \in DOMAIN taskQueue}

--------------------------------------------------------------------------
\* C1: the number of tasks occupying a slot never exceeds the concurrency
\* limit, also when several invocations of checkQueue are suspended at the
\* gate at the same time.
C1_ConcurrencyLimit ==
  /\ Cardinality(SlotHolders) <= concurrency
  /\ activeRequests <= concurrency

--------------------------------------------------------------------------
\* The identifiers whose network call has been made.
FetchBegun == {log[i].url : i \in {j \in DOMAIN log : log[j].net > 0}}

\* The identifiers whose Fetch Worker has terminated.
WorkerDone == {log[i].url : i \in Terminated}

\* c is fetched only after the worker of a or of b has terminated.
ThirdWaits == "c" \in FetchBegun => ("a" \in WorkerDone \/ "b" \in WorkerDone)

\* The fetches of a and b begin before any worker completes.
TwoAtOnce == WorkerDone # {} => {"a", "b"} \subseteq FetchBegun

\* C2 as stated: with a limit of 2, no retries, an always-allowing gate and
\* a, b, c added before start(), the fetches of a and b (and only they) begin
\* before any worker completes, and the fetch of c begins only after the
\* worker of a or of b has terminated.
C2_Scenario1_AnyGate == ThirdWaits /\ TwoAtOnce

\* C2 as amended: the fetch of c begins only after the worker of a or of b
\* has terminated; and when the gate answers synchronously, as the default
\* gate does, the fetches of a and b both begin before any worker completes.
C2_Scenario1 == ThirdWaits /\ (gateMode = "sync" => TwoAtOnce)

\* c is being fetched, behind a synchronous gate, after a worker terminated.
C2_Witness ==
  /\ gateMode = "sync"
  /\ "c" \in FetchBegun
  /\ WorkerDone # {}

--------------------------------------------------------------------------
--------------------------------------------------------------------------
\* A step in which the gate rejects pop p.
Rejects(p) == log[p].gate = "pending" /\ log'[p].gate = "denied"

\* C4: when the gate returns false for a popped identifier, no network call
\* is made for it, neither the item processor nor the error handler is called
\* for it, activeRequests is unchanged, the identifier does not go back into
\* the queue, and the drain loop goes on with the next pending identifier.
C4_GateRejection ==
  [][\A p \in DOMAIN log :
       /\ log'[p].gate = "denied" =>
            /\ log'[p].net = 0 /\ log'[p].item = 0 /\ log'[p].err = 0
            /\ log'[p].ord = 0
            /\ ~\E w \in workers' : w.d = p
            /\ ~\E t \in timers' : t.d = p
       /\ Rejects(p) =>
            /\ activeRequests' = activeRequests
            /\ workers' = workers
            /\ IF Running /\ activeRequests < concurrency /\ Len(taskQueue) > 0
               THEN /\ taskQueue' = Tail(taskQueue)
                    /\ Len(log') = Len(log) + 1
                    /\ log'[Len(log')].url = Head(taskQueue)
               ELSE taskQueue' = taskQueue /\ Len(log') = Len(log)]_vars

\* A rejected identifier, with the one after it popped in turn.
C4_Witness ==
  \E p \in DOMAIN log : log[p].gate = "denied" /\ p < Len(log)

--------------------------------------------------------------------------
\* C6: when the queue is empty while the run is active and not paused, the
\* end-of-queue handler has been invoked and the drain loop has not
\* terminated: it is polling.
C6_EndOfQueue ==
  (Running /\ taskQueue = <<>> /\ microQ = <<>> /\ gates = {} /\ workers = {})
    => (endCalls >= 1 /\ sleeping # {})

--------------------------------------------------------------------------
\* Pop i came before pop j, and j's identifier was already in the queue when
\* i's was popped.
PendingTogether(i, j) == i < j /\ log[j].ins <= log[i].popAt

\* C8: identifiers are popped in the order of their insertion, and the Fetch
\* Worker of an identifier popped earlier is started no later than that of
\* one popped after it.
C8_FifoDispatch ==
  \A i, j \in DOMAIN log :
    i < j =>
      /\ log[i].ins < log[j].ins
      /\ (PendingTogether(i, j) /\ log[j].ord > 0
             /\ log[i].gate \in {"pending", "allowed"})
           => (log[i].ord > 0 /\ log[i].ord < log[j].ord)

--------------------------------------------------------------------------
\* C9: while the run is stopped or paused no Fetch Worker is started and
\* activeRequests is not incremented.
C9_NoDispatchWhenHalted ==
  [][(activeRequests' > activeRequests \/ Started(log') > Started(log))
       => (active /\ ~paused)]_vars

--------------------------------------------------------------------------
\* The part of the state that a lifecycle call without effect leaves alone.
core == <<taskQueue, active, paused, concurrency, activeRequests, retries, delay,
          gateMode, microQ, gates, sleeping, workers, timers, log, adds,
          insertedAt, endCalls>>

\* C5 as stated: an identifier added while the run is Paused stays in the
\* queue, counted by getTaskCount(), until resume() is called.
C5_HeldUntilResume ==
  /\ \A id \in AllIds : held[id] # "no" => id \in Pending
  /\ getTaskCount >= Cardinality({id \in AllIds : held[id] # "no"})

\* C5 as amended: an identifier added while the run is Paused stays in the
\* queue, counted by getTaskCount(), neither popped nor passed to the gate
\* nor fetched, until the run leaves Paused, which resume() does and stop()
\* followed by start() does too; and resume() runs the drain loop, which
\* pops the head of the queue in that call when a slot is free.
C5_PauseResume ==
  [][/\ \A id \in AllIds : held'[id] = "paused" => id \in Pending'
     /\ getTaskCount' >= Cardinality({id \in AllIds : held'[id] = "paused"})
     /\ (active /\ paused) => (Len(log') = Len(log) \/ ~paused')
     /\ (active /\ paused /\ active' /\ ~paused'
           /\ activeRequests < concurrency /\ Len(taskQueue) > 0)
          => /\ taskQueue' = Tail(taskQueue)
             /\ Len(log') = Len(log) + 1
             /\ log'[Len(log')].url = Head(taskQueue)]_vars

\* An identifier added while Paused waits in the queue although a slot is free.
C5_Witness ==
  /\ active /\ paused
  /\ activeRequests < concurrency
  /\ \E id \in AllIds : held[id] = "paused" /\ id \in Pending

--------------------------------------------------------------------------
\* C7: the queue holds no identifier twice, getTaskCount() is the number of
\* distinct identifiers added and not yet popped, and the entries stand in
\* the order of their first insertion, which adding a pending identifier
\* again does not change.
C7_Dedup ==
  /\ \A i, j \in DOMAIN taskQueue : i < j => taskQueue[i] # taskQueue[j]
  /\ getTaskCount = Cardinality({id \in AllIds : insertedAt[id] # 0})
  /\ \A i \in DOMAIN taskQueue : insertedAt[taskQueue[i]] # 0
  /\ \A i, j \in DOMAIN taskQueue :
       i < j => insertedAt[taskQueue[i]] < insertedAt[taskQueue[j]]

\* Two identifiers are pending after three addTask calls, one a duplicate.
C7_Witness ==
  /\ Len(taskQueue) = 2
  /\ adds >= 3
  /\ log = <<>>

--------------------------------------------------------------------------
\* C10: start() on a run that is active and resume() on a run that is not
\* Paused change nothing and do not run the drain loop; start() logs that the
\* crawler is already running exactly when the run is active, and resume()
\* that it cannot resume exactly when the run is not Paused.
C10_NoOpLifecycle ==
  [][console' # console =>
       /\ console'.line = AlreadyRunning => (active /\ UNCHANGED core)
       /\ console'.line = CannotResume => (~(active /\ paused) /\ UNCHANGED core)
       /\ console'.line = "Crawler started." => ~active
       /\ console'.line = "Crawler resumed." => (active /\ paused)]_vars

\* start() has just been called on a Paused run with work pending and a
\* free slot, and has left the run Paused.
C10_WitnessStart ==
  /\ console.line = AlreadyRunning
  /\ active /\ paused
  /\ Len(taskQueue) > 0
  /\ activeRequests < concurrency

--------------------------------------------------------------------------
\* A step in which a network call of pop p fails.
AttemptFails(p) == log'[p].failed = log[p].failed + 1

\* C11: every failed fetch attempt, whatever the value it fails with, ends
\* in exactly one of a scheduled retry, when retries remain, and a call of
\* the error handler, when none remain.
C11_FailureHandling ==
  [][\A p \in DOMAIN log :
       AttemptFails(p) =>
         \/ (log'[p].sched = log[p].sched + 1 /\ log'[p].err = log[p].err)
         \/ (log'[p].sched = log[p].sched /\ log'[p].err = log[p].err + 1)]_vars

--------------------------------------------------------------------------
\* C12: when the network call of a dispatched task succeeds, the item
\* processor is invoked once and nothing further happens for the task,
\* whatever the item processor does: no retry is scheduled, no further
\* network call is made and the error handler is not invoked.
C12_SuccessHandling ==
  \A p \in DOMAIN log :
    log[p].ok =>
      /\ log[p].item = 1
      /\ log[p].err = 0
      /\ log[p].net = log[p].failed + 1
      /\ log[p].sched = log[p].failed
      /\ ~\E t \in timers : t.d = p

--------------------------------------------------------------------------
\* The workers whose attempt ends in this step: those the drain loop
\* started (first attempts), and retry attempts.
FirstEnded == {w \in workers \ workers' : w.first}
RetryEnded == {w \in workers \ workers' : ~w.first}

\* The pops under retry: retry timer pending, or retry attempt running.
UnderRetry(ws, ts) ==
  {p \in DOMAIN log : (\E t \in ts : t.d = p) \/ (\E w \in ws : w.d = p /\ ~w.first)}

\* C13: activeRequests is decremented exactly once per started worker, when
\* its first attempt ends, whether it succeeded, failed for good or was
\* handed to a retry timer; a retry timer and a retry attempt neither hold a
\* slot nor change activeRequests; and when a first attempt has failed the
\* next pending identifier is popped in the same step, the retry pending.
C13_SlotRelease ==
  [][/\ Cardinality(FirstEnded) <= 1
     /\ FirstEnded # {} => activeRequests' = activeRequests - 1
     /\ FirstEnded = {} => activeRequests' >= activeRequests
     /\ (RetryEnded # {} \/ (timers' \subseteq timers /\ timers' # timers))
          => activeRequests' = activeRequests
     /\ activeRequests' = Cardinality({w \in workers' : w.first})
     /\ \A p \in UnderRetry(workers', timers') : ~\E w \in workers' : w.d = p /\ w.first
     /\ \A w \in FirstEnded :
          (log'[w.d].sched = log[w.d].sched + 1 /\ Running
             /\ activeRequests - 1 < concurrency /\ Len(taskQueue) > 0)
            => /\ taskQueue' = Tail(taskQueue)
               /\ Len(log') = Len(log) + 1
               /\ \E t \in timers' : t.d = w.d]_vars

\* With one slot, a retry timer is pending for one task while the worker of
\* a task popped after it is in flight.
C13_Witness ==
  /\ concurrency = 1
  /\ \E t \in timers : \E w \in workers : w.first /\ w.d > t.d

--------------------------------------------------------------------------
\* C19: activeRequests is never negative and is the number of workers the
\* drain loop started whose first attempt has not settled, whatever the
\* hooks do, so that it is 0 once every started worker has terminated.
C19_CounterAccuracy ==
  /\ activeRequests >= 0
  /\ activeRequests = Cardinality(SlotHolders)
  /\ (\A i \in DOMAIN log : log[i].ord > 0 => i \in Terminated) => activeRequests = 0

\* The worker of a task has terminated after its item processor threw and
\* the error handler was called, and no slot is taken.
C19_Witness ==
  /\ activeRequests = 0
  /\ \E i \in Terminated : log[i].ok /\ log[i].err = 1

--------------------------------------------------------------------------
\* C16: every identifier popped from the queue, the empty string included,
\* is passed to the gate, once and before a slot is taken for it, and is
\* then handed to a Fetch Worker exactly when the gate allowed it; none is
\* dropped without the gate having been asked.
C16_GateBeforeSlot ==
  \A p \in DOMAIN log :
    /\ log[p].gate \in {"pending", "allowed", "denied"}
    /\ log[p].ord > 0 <=> log[p].gate = "allowed"

--------------------------------------------------------------------------
\* The number of identifiers popped in a step.
Popped == Len(log') - Len(log)

\* C17: the queue changes only by addTask, which appends the identifier
\* unless it is pending, whether or not it was popped before, and by the pop
\* of the drain loop; no outcome of a worker, no retry and no rejection by
\* the gate puts an identifier into the queue.
C17_NoRequeue ==
  [][/\ Popped \in {0, 1}
     /\ adds' = adds =>
          taskQueue' = IF Popped = 1 THEN Tail(taskQueue) ELSE taskQueue
     /\ adds' # adds =>
          \E url \in Ids :
            LET q == IF url \in Pending THEN taskQueue ELSE Append(taskQueue, url)
            IN taskQueue' = IF Popped = 1 THEN Tail(q) ELSE q]_vars

\* An identifier whose task had exhausted its retries was added again and
\* its second task has got a worker.
C17_Witness ==
  \E i, j \in DOMAIN log :
    /\ i < j
    /\ log[i].url = log[j].url
    /\ i \in Finished /\ log[i].err = 1 /\ log[i].budget > 0
    /\ log[j].ord > 0

--------------------------------------------------------------------------
\* C20: an identifier is popped only when the run is active and not paused
\* and activeRequests is below the limit, so getTaskCount() does not go
\* down while the run is Idle, Stopped or Paused, whatever invocations of
\* the drain loop, gate calls, workers and timers are pending.
C20_GuardedPop ==
  [][/\ Popped > 0 => (active' /\ ~paused' /\ activeRequests' < concurrency)
     /\ getTaskCount' < getTaskCount => Popped > 0
     /\ ~(active' /\ ~paused') => getTaskCount' >= getTaskCount]_vars

\* The run is stopped or paused with identifiers pending and a slot free,
\* while a gate answer, a poll or a worker of the drain loop is outstanding.
C20_Witness ==
  /\ ~Running
  /\ Len(taskQueue) > 0
  /\ activeRequests < concurrency
  /\ (microQ # <<>> \/ gates # {} \/ sleeping # {} \/ SlotHolders # {})

--------------------------------------------------------------------------
\* C18: the retries a task gets are the retry count configured when its
\* worker is started; setRetries changes neither the attempts left to a task
\* in flight or waiting on its retry timer nor the total it ends with, and
\* counts for the workers started after it.
C18_BudgetAtDispatch ==
  [][/\ \A i \in DOMAIN log :
          /\ (log[i].ord = 0 /\ log'[i].ord > 0) => log'[i].budget = retries
          /\ log[i].ord > 0 => log'[i].budget = log[i].budget
     /\ retries' # retries => (workers' = workers /\ timers' = timers /\ log' = log)
     /\ \A i \in DOMAIN log' :
          log'[i].ord > 0 =>
            /\ log'[i].sched <= log'[i].budget
            /\ \A w \in workers' : w.d = i => w.retries = log'[i].budget - log'[i].sched
            /\ \A t \in timers' : t.d = i => t.retries = log'[i].budget - log'[i].sched + 1
            /\ (~log'[i].ok /\ ~(\E w \in workers' : w.d = i) /\ ~(\E t \in timers' : t.d = i))
                 => log'[i].net = log'[i].budget + 1]_vars

\* The retry count was changed while a task waits on its retry timer, and a
\* worker started since then has the new count.
C18_Witness ==
  \E t \in timers : \E w \in workers :
    /\ log[t.d].budget # retries
    /\ w.first /\ w.d > t.d /\ log[w.d].budget = retries

--------------------------------------------------------------------------
\* The identifier that the k-th addTask call made pending is still in the
\* queue; it has been popped; it has been popped and passed to the gate.
Waiting(k) == \E id \in Ids : insertedAt[id] = k
PoppedOf(k) == \E p \in DOMAIN log : log[p].ins = k
GatedOf(k) == \E p \in DOMAIN log : log[p].ins = k /\ log[p].gate # "none"

\* C14: when the run stays Running, every gate call answers and every fetch
\* attempt terminates, every identifier in the queue is eventually popped
\* and passed to the gate, with no further call of addTask, start or resume.
C14_Progress ==
  \A k \in 1..MaxAdds : Waiting(k) ~> (GatedOf(k) \/ ~Running)

\* The drain loop loses no wake-up: under the same conditions every
\* identifier in the queue is eventually popped.
PopProgress ==
  \A k \in 1..MaxAdds : Waiting(k) ~> (PoppedOf(k) \/ ~Running)

--------------------------------------------------------------------------
==========================================================================
